---- MODULE Spec2Model ----
(***************************************************************************)
(* Model of sfast/compilers/stable_diffusion_pipeline_compiler.py:         *)
(* installation of the lazy-trace and CUDA-graph wrappers on a pipeline's  *)
(* entry points (compile, compile_unet), the TorchScript compiler hook     *)
(* (_ts_compiler, _modify_model, _build_lazy_trace) and the per-signature  *)
(* cache of the lazy_trace wrapper that calls the hook.                    *)
(***************************************************************************)
EXTENDS Integers, Sequences, FiniteSets, TLC

VARIABLES
    config,          \* the CompilationConfig instance handed to compile/compile_unet
    device,          \* device.type of the pipeline, the unet and the controlnet
    hasControlnet,   \* hasattr(m, 'controlnet')
    torch20x,        \* 2.0.0 <= torch.__version__ < 2.1.0
    forward,         \* entry point -> stack of wrappers, innermost first
    memfmt,          \* module -> memory format it was converted to ("None": untouched)
    xformers,        \* modules on which _enable_xformers ran
    installs,        \* number of compile/compile_unet calls made so far
    installErr,      \* error raised by the last compile/compile_unet call
    training,        \* the `training` attribute of the traced module
    traced_modules,  \* cache of the lazy_trace wrapper on unet.forward: signature -> entry
    tsInvoked,       \* signature -> number of ts_compiler invocations
    captures,        \* signature -> number of capture (trace) attempts
    nextId,          \* identity of the next traced module object
    calls,           \* number of calls made to unet.forward
    lastCall,        \* what the last call to unet.forward did
    trace            \* steps executed by the compilation of the last call, in order

vars == <<config, device, hasControlnet, torch20x, forward, memfmt, xformers,
          installs, installErr, training, traced_modules, tsInvoked, captures,
          nextId, calls, lastCall, trace>>

installVars == <<forward, memfmt, xformers, installs, installErr>>
callVars == <<traced_modules, tsInvoked, captures, nextId, calls, lastCall, trace>>
envVars == <<config, device, hasControlnet, torch20x, training>>

(***************************************************************************)
(* Bounds                                                                  *)
(***************************************************************************)
MaxInstalls == 1
MaxCalls == 3
NumSigs == 2

Sigs == 1..NumSigs

(***************************************************************************)
(* Configuration                                                           *)
(***************************************************************************)
MemoryFormats == {"None", "channels_last", "contiguous_format"}
DeviceTypes == {"cuda", "cpu"}
TrainingAttrs == {"True", "False", "absent"}

CompilationConfig ==
    [memory_format : MemoryFormats,
     enable_jit : BOOLEAN,
     enable_jit_freeze : BOOLEAN,
     preserve_parameters : BOOLEAN,
     enable_cnn_optimization : BOOLEAN,
     prefer_lowp_gemm : BOOLEAN,
     enable_xformers : BOOLEAN,
     enable_cuda_graph : BOOLEAN,
     enable_triton : BOOLEAN,
     trace_scheduler : BOOLEAN]

\* CompilationConfig.Default(): the dataclass defaults; memory_format depends on
\* gpu_device.device_has_tensor_core().
DefaultConfig(hasTensorCore) ==
    [memory_format |-> IF hasTensorCore THEN "channels_last" ELSE "contiguous_format",
     enable_jit |-> TRUE,
     enable_jit_freeze |-> TRUE,
     preserve_parameters |-> TRUE,
     enable_cnn_optimization |-> TRUE,
     prefer_lowp_gemm |-> TRUE,
     enable_xformers |-> FALSE,
     enable_cuda_graph |-> FALSE,
     enable_triton |-> FALSE,
     trace_scheduler |-> FALSE]

FlagNames ==
    {"enable_jit", "enable_jit_freeze", "preserve_parameters",
     "enable_cnn_optimization", "prefer_lowp_gemm", "enable_xformers",
     "enable_cuda_graph", "enable_triton", "trace_scheduler"}

(***************************************************************************)
(* Wrappers and entry points                                               *)
(***************************************************************************)
Modules == {"pipeline", "unet", "controlnet", "vae"}
UNets == {"unet", "controlnet"}

EntryPoints ==
    {"unet.forward", "controlnet.forward", "text_encoder.forward", "vae.decode",
     "vae.encoder.forward", "vae.quant_conv.forward",
     "scheduler.scale_model_input", "scheduler.step"}

ForwardOf(u) == IF u = "unet" THEN "unet.forward" ELSE "controlnet.forward"

Original == <<"orig">>

\* lazy_trace_(f): the interception wrapper around f.
LazyTraceWrap(f) == Append(f, "lazy_trace")

\* make_dynamic_graphed_callable(f): the replay-capture wrapper around f.
GraphedWrap(f) == Append(f, "cuda_graph")

HasReplay(f) == \E i \in 1..Len(f) : f[i] = "cuda_graph"
HasLazyTrace(f) == \E i \in 1..Len(f) : f[i] = "lazy_trace"

(***************************************************************************)
(* compile_unet and compile                                                *)
(***************************************************************************)
\* make_dynamic_graphed_callable(f) on a module living on device type dev.
\* Stream replay exists on 'cuda' only; elsewhere the call raises
\* UnsupportedDeviceError and returns nothing.
MakeDynamicGraphedCallable(f, dev) ==
    IF dev = "cuda"
    THEN [forward |-> GraphedWrap(f), err |-> "none"]
    ELSE [forward |-> f, err |-> "UnsupportedDeviceError"]

\* Faulty variant: enable_cuda_graph is taken from the option alone, not the device.
CompileUnetNoDeviceCheckMut(f, dev, cfg) ==
    LET traced == IF cfg.enable_jit THEN LazyTraceWrap(f) ELSE f
    IN  IF cfg.enable_cuda_graph
        THEN MakeDynamicGraphedCallable(traced, dev)
        ELSE [forward |-> traced, err |-> "none"]

\* Faulty variant: the replay wrapper is installed first and lazy_trace_ around it.
CompileUnetGraphFirstMut(f, dev, cfg) ==
    LET enable_cuda_graph == cfg.enable_cuda_graph /\ dev = "cuda"
        graphed == IF enable_cuda_graph
                   THEN MakeDynamicGraphedCallable(f, dev)
                   ELSE [forward |-> f, err |-> "none"]
    IN  IF cfg.enable_jit /\ graphed.err = "none"
        THEN [forward |-> LazyTraceWrap(graphed.forward), err |-> "none"]
        ELSE graphed

\* compile_unet(m, config) on a module whose forward is f and whose device.type
\* is dev: the forward it leaves on m and the error it raises, if any.
CompileUnet(f, dev, cfg) ==
    LET enable_cuda_graph == cfg.enable_cuda_graph /\ dev = "cuda"
        traced == IF cfg.enable_jit THEN LazyTraceWrap(f) ELSE f
    IN  IF enable_cuda_graph
        THEN MakeDynamicGraphedCallable(traced, dev)
        ELSE [forward |-> traced, err |-> "none"]

\* m.to(memory_format=config.memory_format), guarded by `is not None`.
ToMemoryFormat(old, cfg) ==
    IF cfg.memory_format # "None" THEN cfg.memory_format ELSE old

\* The entry points compile() rebinds to lazy_trace_ wrappers itself.
CompileTraced(cfg, is20x) ==
    IF cfg.enable_jit
    THEN {"text_encoder.forward"}
         \cup (IF ~is20x
               THEN {"vae.decode", "vae.encoder.forward", "vae.quant_conv.forward"}
               ELSE {})
         \cup (IF cfg.trace_scheduler
               THEN {"scheduler.scale_model_input", "scheduler.step"}
               ELSE {})
    ELSE {}

\* compile_unet(m.<u>, config) called on one of the pipeline's unets.
CompileUnetAction(u) ==
    /\ installs < MaxInstalls
    /\ u = "controlnet" => hasControlnet
    /\ LET r == CompileUnet(forward[ForwardOf(u)], device[u], config)
       IN  /\ forward' = [forward EXCEPT ![ForwardOf(u)] = r.forward]
           /\ installErr' = r.err
    /\ xformers' = IF config.enable_xformers THEN xformers \cup {u} ELSE xformers
    /\ memfmt' = [memfmt EXCEPT ![u] = ToMemoryFormat(@, config)]
    /\ installs' = installs + 1
    /\ UNCHANGED <<envVars, callVars>>

\* compile(m, config) called on the pipeline.
CompileAction ==
    /\ installs < MaxInstalls
    /\ LET ru == CompileUnet(forward["unet.forward"], device["unet"], config)
           rc == IF hasControlnet /\ ru.err = "none"
                 THEN CompileUnet(forward["controlnet.forward"], device["controlnet"], config)
                 ELSE [forward |-> forward["controlnet.forward"], err |-> ru.err]
           ok == rc.err = "none"
           done == {"unet"} \cup (IF hasControlnet /\ ru.err = "none" THEN {"controlnet"} ELSE {})
           lazy == IF ok THEN CompileTraced(config, torch20x) ELSE {}
       IN  /\ forward' = [e \in EntryPoints |->
                            IF e = "unet.forward" THEN ru.forward
                            ELSE IF e = "controlnet.forward" THEN rc.forward
                            ELSE IF e \in lazy THEN LazyTraceWrap(forward[e])
                            ELSE forward[e]]
           /\ installErr' = rc.err
           /\ xformers' = IF config.enable_xformers
                          THEN xformers \cup done \cup (IF ok THEN {"pipeline"} ELSE {})
                          ELSE xformers
           /\ memfmt' = [mod \in Modules |->
                            IF mod \in done \/ (mod = "vae" /\ ok)
                            THEN ToMemoryFormat(memfmt[mod], config)
                            ELSE memfmt[mod]]
    /\ installs' = installs + 1
    /\ UNCHANGED <<envVars, callVars>>

(***************************************************************************)
(* _modify_model, _ts_compiler, _build_lazy_trace                          *)
(***************************************************************************)
NoModifyFn ==
    [bound |-> FALSE, enable_cnn_optimization |-> FALSE, prefer_lowp_gemm |-> FALSE,
     enable_triton |-> FALSE, memory_format |-> "None"]

\* The passes under `if enable_triton`.
TritonPasses(enable_triton) ==
    IF enable_triton
    THEN <<"triton_optimize_reshape", "triton_fuse_group_norm_silu",
           "triton_optimize_group_norm">>
    ELSE <<>>

\* The passes after jit_pass_optimize_linear, each under its own condition.
TailPasses(enable_cnn_optimization, prefer_lowp_gemm, memory_format) ==
    (IF memory_format # "None" THEN <<"convert_op_input_tensors">> ELSE <<>>)
    \o (IF enable_cnn_optimization THEN <<"optimize_cnn">> ELSE <<>>)
    \o (IF prefer_lowp_gemm THEN <<"prefer_lowp_gemm", "fuse_lowp_linear_add">> ELSE <<>>)

\* Faulty variant: jit_pass_optimize_linear sits under `if prefer_lowp_gemm`.
ModifyModelLinearFlagMut(cnn, lowp, triton, fmt) ==
    <<"inline", "remove_dropout", "remove_contiguous", "replace_view_with_reshape">>
    \o TritonPasses(triton)
    \o (IF lowp THEN <<"optimize_linear">> ELSE <<>>)
    \o TailPasses(cnn, lowp, fmt)

\* Faulty variant: jit_pass_optimize_linear is called before the view is canonicalized.
ModifyModelLinearFirstMut(cnn, lowp, triton, fmt) ==
    <<"inline", "remove_dropout", "optimize_linear", "remove_contiguous",
      "replace_view_with_reshape">>
    \o TritonPasses(triton)
    \o TailPasses(cnn, lowp, fmt)

\* _modify_model(m, ...): the passes it applies to m.graph, in order.
ModifyModel(enable_cnn_optimization, prefer_lowp_gemm, enable_triton, memory_format) ==
    <<"inline", "remove_dropout", "remove_contiguous", "replace_view_with_reshape">>
    \o TritonPasses(enable_triton)
    \o <<"optimize_linear">>
    \o TailPasses(enable_cnn_optimization, prefer_lowp_gemm, memory_format)

\* modify_model_fn(m): the functools.partial of _modify_model, or None.
ModifyModelFn(fn) ==
    IF fn.bound
    THEN ModifyModel(fn.enable_cnn_optimization, fn.prefer_lowp_gemm,
                     fn.enable_triton, fn.memory_format)
    ELSE <<>>

\* Faulty variant: the training mode of m is not consulted.
FreezeAppliesAlwaysMut(m, freeze) == freeze

\* `freeze and not getattr(m, 'training', False)`
FreezeApplies(m, freeze) == freeze /\ m.training # "True"

\* Faulty variant: modify_model_fn runs first and the result is frozen afterwards.
TsStepsRewriteFirstMut(m, ts) ==
    ModifyModelFn(ts.modify_model_fn)
    \o (IF FreezeApplies(m, ts.freeze) THEN <<"better_freeze">> ELSE <<>>)

\* The steps _ts_compiler runs on the traced module m, in order.
TsSteps(m, ts) ==
    (IF FreezeApplies(m, ts.freeze) THEN <<"better_freeze">> ELSE <<>>)
    \o ModifyModelFn(ts.modify_model_fn)

\* The body of _ts_compiler run on the step list `steps`, where step number
\* failAt raises (0: no step raises). Nothing in _ts_compiler catches.
\* `module` is the m it returns, `modifyArg` the m it handed to modify_model_fn.
TsRun(m, ts, steps, failAt) ==
    LET raised == failAt \in 1..Len(steps)
        ran == IF raised THEN SubSeq(steps, 1, failAt) ELSE steps
        finished == IF raised THEN SubSeq(steps, 1, failAt - 1) ELSE steps
        frozen == \E i \in 1..Len(finished) : finished[i] = "better_freeze"
        passAt == {i \in 1..Len(ran) : ran[i] # "better_freeze"}
    IN  [status |-> IF raised THEN "raised" ELSE "ok",
         error |-> IF ~raised THEN "none"
                   ELSE IF steps[failAt] = "better_freeze" THEN "FreezeError"
                   ELSE "RewritePassError",
         steps |-> ran,
         modifyArg |-> IF passAt = {} THEN "none"
                       ELSE IF \E i \in 1..Len(ran) :
                                  /\ ran[i] = "better_freeze"
                                  /\ \A j \in passAt : i < j
                            THEN "frozen"
                       ELSE "unfrozen",
         module |-> [id |-> m.id,
                     frozen |-> frozen,
                     preserve |-> frozen /\ ts.preserve_parameters]]

\* Faulty variant: _ts_compiler returns one shared module instead of its argument m.
TsCompilerSharedMut(m, ts, failAt) ==
    [TsRun(m, ts, TsSteps(m, ts), failAt) EXCEPT !.module.id = 0]

\* Faulty variant: _ts_compiler catches what its steps raise and returns m regardless.
TsCompilerSwallowMut(m, ts, failAt) ==
    [TsRun(m, ts, TsSteps(m, ts), failAt) EXCEPT !.status = "ok", !.error = "none"]

\* _ts_compiler(m, call_helper, inputs, kwarg_inputs, modify_model_fn, freeze,
\* preserve_parameters)
TsCompiler(m, ts, failAt) == TsRun(m, ts, TsSteps(m, ts), failAt)

\* Faulty variant: lazy_trace_ is built without the ts_compiler keyword.
BuildLazyTraceNoCompilerMut(cfg) ==
    [ts_compiler |->
        [bound |-> FALSE, freeze |-> FALSE, preserve_parameters |-> FALSE,
         modify_model_fn |-> NoModifyFn],
     check_trace |-> FALSE,
     strict |-> FALSE]

\* _build_lazy_trace(config): the keyword arguments bound into lazy_trace_.
BuildLazyTrace(cfg) ==
    [ts_compiler |->
        [bound |-> TRUE,
         freeze |-> cfg.enable_jit_freeze,
         preserve_parameters |-> cfg.preserve_parameters,
         modify_model_fn |->
            [bound |-> TRUE,
             enable_cnn_optimization |-> cfg.enable_cnn_optimization,
             prefer_lowp_gemm |-> cfg.prefer_lowp_gemm,
             enable_triton |-> cfg.enable_triton,
             memory_format |-> cfg.memory_format]],
     check_trace |-> FALSE,
     strict |-> FALSE]

(***************************************************************************)
(* The lazy_trace wrapper: signature cache and call interception           *)
(***************************************************************************)
NoCall ==
    [sig |-> 0, capture |-> "none", servedBy |-> "none", artifact |-> 0,
     error |-> "none", compiled |-> FALSE, fault |-> 0, modifyArg |-> "none"]

Absent == [state |-> "absent", artifact |-> 0, frozen |-> FALSE, preserve |-> FALSE]
Fallback == [state |-> "fallback", artifact |-> 0, frozen |-> FALSE, preserve |-> FALSE]
Compiled(mod) ==
    [state |-> "compiled", artifact |-> mod.id, frozen |-> mod.frozen,
     preserve |-> mod.preserve]

\* Faulty variant: an untraceable signature is left without an entry.
OnUntraceableForgetMut(entry) == entry

\* What the wrapper stores for a signature whose capture raised UntraceableError.
OnUntraceable(entry) == Fallback

CaptureOutcomes == {"ok", "UntraceableError", "RuntimeError"}

\* One call of the wrapper lazy_trace_(f) with signature s on cache entry `entry`:
\* cap is what capture does if it is attempted, failAt the compiler step that
\* raises, id the identity of the module capture produces.
LazyTraceCall(entry, lt, s, cap, failAt, id, trn) ==
    IF entry.state = "compiled"
    THEN [entry |-> entry, captured |-> FALSE, invoked |-> FALSE, steps |-> <<>>,
          call |-> [sig |-> s, capture |-> "none", servedBy |-> "artifact",
                    artifact |-> entry.artifact, error |-> "none", compiled |-> FALSE,
                    fault |-> 0, modifyArg |-> "none"]]
    ELSE IF entry.state = "fallback"
    THEN [entry |-> entry, captured |-> FALSE, invoked |-> FALSE, steps |-> <<>>,
          call |-> [sig |-> s, capture |-> "none", servedBy |-> "orig",
                    artifact |-> 0, error |-> "none", compiled |-> FALSE,
                    fault |-> 0, modifyArg |-> "none"]]
    ELSE IF cap = "UntraceableError"
    THEN [entry |-> OnUntraceable(entry), captured |-> TRUE, invoked |-> FALSE, steps |-> <<"capture">>,
          call |-> [sig |-> s, capture |-> cap, servedBy |-> "orig",
                    artifact |-> 0, error |-> "none", compiled |-> FALSE,
                    fault |-> 0, modifyArg |-> "none"]]
    ELSE IF cap # "ok"
    THEN [entry |-> entry, captured |-> TRUE, invoked |-> FALSE, steps |-> <<"capture">>,
          call |-> [sig |-> s, capture |-> cap, servedBy |-> "none",
                    artifact |-> 0, error |-> cap, compiled |-> FALSE,
                    fault |-> 0, modifyArg |-> "none"]]
    ELSE LET m == [id |-> id, training |-> trn]
             r == IF lt.ts_compiler.bound
                  THEN TsCompiler(m, lt.ts_compiler, failAt)
                  ELSE [status |-> "ok", error |-> "none", steps |-> <<>>,
                        modifyArg |-> "none",
                        module |-> [id |-> id, frozen |-> FALSE, preserve |-> FALSE]]
         IN  IF r.status = "ok"
             THEN [entry |-> Compiled(r.module), captured |-> TRUE,
                   invoked |-> lt.ts_compiler.bound, steps |-> <<"capture">> \o r.steps,
                   call |-> [sig |-> s, capture |-> cap, servedBy |-> "artifact",
                             artifact |-> r.module.id, error |-> "none",
                             compiled |-> TRUE, fault |-> failAt,
                             modifyArg |-> r.modifyArg]]
             ELSE [entry |-> entry, captured |-> TRUE, invoked |-> TRUE,
                   steps |-> <<"capture">> \o r.steps,
                   call |-> [sig |-> s, capture |-> cap, servedBy |-> "none",
                             artifact |-> 0, error |-> r.error, compiled |-> TRUE,
                             fault |-> failAt, modifyArg |-> r.modifyArg]]

\* The compiler steps a miss on unet.forward would run: the range of failAt.
StepsOfMiss == TsSteps([id |-> nextId, training |-> training], BuildLazyTrace(config).ts_compiler)

\* A call of m.unet.forward with signature s. A replay wrapper, if installed,
\* hands the call to the callable it encloses.
CallBody(s, cap, failAt) ==
    /\ IF HasLazyTrace(forward["unet.forward"])
       THEN LET r == LazyTraceCall(traced_modules[s], BuildLazyTrace(config), s, cap,
                                   failAt, nextId, training)
            IN  /\ traced_modules' = [traced_modules EXCEPT ![s] = r.entry]
                /\ captures' = [captures EXCEPT ![s] = @ + (IF r.captured THEN 1 ELSE 0)]
                /\ tsInvoked' = [tsInvoked EXCEPT ![s] = @ + (IF r.invoked THEN 1 ELSE 0)]
                /\ nextId' = nextId + (IF r.captured THEN 1 ELSE 0)
                /\ lastCall' = r.call
                /\ trace' = r.steps
       ELSE /\ lastCall' = [sig |-> s, capture |-> "none", servedBy |-> "orig",
                            artifact |-> 0, error |-> "none", compiled |-> FALSE,
                            fault |-> 0, modifyArg |-> "none"]
            /\ trace' = <<>>
            /\ UNCHANGED <<traced_modules, captures, tsInvoked, nextId>>
    /\ calls' = calls + 1
    /\ UNCHANGED <<envVars, installVars>>

\* The first call after installation, with every point of failure.
FirstCall ==
    /\ calls = 0
    /\ \E cap \in CaptureOutcomes, failAt \in 0..Len(StepsOfMiss) : CallBody(1, cap, failAt)

FailPoints(n) == {0, 1, n} \cap (0..n)

\* Any call of a sequence of calls.
Call ==
    /\ calls < MaxCalls
    /\ \E s \in Sigs, cap \in CaptureOutcomes, failAt \in FailPoints(Len(StepsOfMiss)) :
          CallBody(s, cap, failAt)

(***************************************************************************)
(* Initial states                                                          *)
(***************************************************************************)
CallInit ==
    /\ traced_modules = [s \in Sigs |-> Absent]
    /\ tsInvoked = [s \in Sigs |-> 0]
    /\ captures = [s \in Sigs |-> 0]
    /\ nextId = 1
    /\ calls = 0
    /\ lastCall = NoCall
    /\ trace = <<>>

\* A freshly loaded pipeline and a configuration, before compile is called.
InitInstall ==
    /\ config \in CompilationConfig
    /\ hasControlnet \in BOOLEAN
    /\ device \in [{"pipeline", "unet", "controlnet"} -> DeviceTypes]
    /\ device["pipeline"] = device["unet"]
    /\ ~hasControlnet => device["controlnet"] = device["unet"]
    /\ torch20x \in BOOLEAN
    /\ forward = [e \in EntryPoints |-> Original]
    /\ memfmt = [mod \in Modules |-> "None"]
    /\ xformers = {}
    /\ installs = 0
    /\ installErr = "none"
    /\ training = "False"
    /\ CallInit

NextInstall ==
    \/ \E u \in UNets : CompileUnetAction(u)
    \/ CompileAction

SpecInstall == InitInstall /\ [][NextInstall]_vars

\* A pipeline on which compile_unet(m.unet, config) has run, before any call.
Installed(cfg, dev) ==
    /\ config = cfg
    /\ hasControlnet = FALSE
    /\ device = [d \in {"pipeline", "unet", "controlnet"} |-> dev]
    /\ torch20x = FALSE
    /\ forward = [e \in EntryPoints |->
                    IF e = "unet.forward" THEN CompileUnet(Original, dev, cfg).forward
                    ELSE Original]
    /\ memfmt = [mod \in Modules |->
                    IF mod = "unet" THEN ToMemoryFormat("None", cfg) ELSE "None"]
    /\ xformers = IF cfg.enable_xformers THEN {"unet"} ELSE {}
    /\ installs = 1
    /\ installErr = CompileUnet(Original, dev, cfg).err
    /\ CallInit

\* Every configuration; one call of the compiled unet.
InitCompiler ==
    /\ \E cfg \in CompilationConfig, dev \in DeviceTypes : Installed(cfg, dev)
    /\ training \in TrainingAttrs

NextCompiler == FirstCall

SpecCompiler == InitCompiler /\ [][NextCompiler]_vars

\* The default configuration with the compile and freeze options either way;
\* a sequence of calls of the compiled unet.
CacheConfigs ==
    {[DefaultConfig(tc) EXCEPT !.enable_jit = j, !.enable_jit_freeze = f] :
        tc \in BOOLEAN, j \in BOOLEAN, f \in BOOLEAN}

InitCache ==
    /\ \E cfg \in CacheConfigs, dev \in DeviceTypes : Installed(cfg, dev)
    /\ training \in TrainingAttrs

NextCache == Call

SpecCache == InitCache /\ [][NextCache]_vars

(***************************************************************************)
(* Properties                                                              *)
(***************************************************************************)
Range(q) == {q[i] : i \in 1..Len(q)}

IsCompiled(s) == traced_modules[s].state = "compiled"
IsFallback(s) == traced_modules[s].state = "fallback"
IsAbsent(s) == traced_modules[s].state = "absent"

\* The step just taken was a call of unet.forward with signature s.
CalledWith(s) == calls' = calls + 1 /\ lastCall'.sig = s

\* The last call ran the whole compilation without an error.
CompiledOk == lastCall.compiled /\ lastCall.error = "none"

\* ---- C1 ----------------------------------------------------------------
\* C1 as stated: once signature S is compiled, ts_compiler has been invoked
\* exactly once for S.
C1_ExactlyOneInvocation ==
    \A s \in Sigs : IsCompiled(s) => tsInvoked[s] = 1

\* C1, amended: the call that compiles S invokes capture and ts_compiler once
\* each; from then on the entry of S never changes, neither capture nor
\* ts_compiler runs for S again, and every call with S is served by that same
\* artifact. Invocations that raised before the compilation succeeded are the
\* only others there can be.
C1_NoRecompile ==
    \A s \in Sigs :
        /\ (~IsCompiled(s) /\ traced_modules'[s].state = "compiled") =>
              /\ CalledWith(s)
              /\ tsInvoked'[s] = tsInvoked[s] + 1
              /\ captures'[s] = captures[s] + 1
        /\ IsCompiled(s) =>
              /\ traced_modules'[s] = traced_modules[s]
              /\ tsInvoked'[s] = tsInvoked[s]
              /\ captures'[s] = captures[s]
              /\ CalledWith(s) =>
                    /\ lastCall'.servedBy = "artifact"
                    /\ lastCall'.artifact = traced_modules[s].artifact
                    /\ ~lastCall'.compiled
                    /\ lastCall'.error = "none"

C1_CacheDeterminism == [][C1_NoRecompile]_vars

\* A cache hit: a call served from an entry whose compilation needed a retry.
C1_Witness ==
    \E s \in Sigs :
        /\ IsCompiled(s)
        /\ tsInvoked[s] = 2
        /\ lastCall.sig = s
        /\ lastCall.servedBy = "artifact"
        /\ ~lastCall.compiled

\* ---- C2 ----------------------------------------------------------------
C2_DistinctArtifacts ==
    \A s1, s2 \in Sigs :
        (s1 # s2 /\ IsCompiled(s1) /\ IsCompiled(s2)) =>
            traced_modules[s1].artifact # traced_modules[s2].artifact

C2_OthersUntouched ==
    \A s1, s2 \in Sigs :
        (s1 # s2 /\ CalledWith(s2)) =>
            /\ traced_modules'[s1] = traced_modules[s1]
            /\ tsInvoked'[s1] = tsInvoked[s1]
            /\ captures'[s1] = captures[s1]

\* C2: two distinct signatures never share a Compiled Artifact, and a call with
\* one signature (hit, miss, compile, fallback or failure) leaves the entry and
\* the counters of every other signature as they were.
C2_SignatureIsolation == []C2_DistinctArtifacts /\ [][C2_OthersUntouched]_vars

\* Two signatures compiled, the second after the first.
C2_Witness ==
    \E s1, s2 \in Sigs :
        /\ s1 # s2
        /\ IsCompiled(s1) /\ IsCompiled(s2)
        /\ lastCall.sig = s2 /\ lastCall.compiled
        /\ traced_modules[s1].artifact < traced_modules[s2].artifact

\* ---- C3 ----------------------------------------------------------------
C3_Recovered ==
    lastCall.capture = "UntraceableError" =>
        /\ lastCall.error = "none"
        /\ lastCall.servedBy = "orig"
        /\ IsFallback(lastCall.sig)

C3_Permanent ==
    \A s \in Sigs :
        IsFallback(s) =>
            /\ traced_modules'[s] = traced_modules[s]
            /\ captures'[s] = captures[s]
            /\ tsInvoked'[s] = tsInvoked[s]
            /\ CalledWith(s) =>
                  /\ lastCall'.servedBy = "orig"
                  /\ lastCall'.capture = "none"
                  /\ lastCall'.error = "none"

\* C3: an UntraceableError during capture is not surfaced, the call is served
\* by the original callable and S enters Fallback; S never leaves Fallback, and
\* every later call with S is served by the original callable without capture.
C3_FallbackPermanence == []C3_Recovered /\ [][C3_Permanent]_vars

\* A later call with a signature that fell back earlier.
C3_Witness ==
    \E s \in Sigs :
        /\ IsFallback(s)
        /\ captures[s] = 1
        /\ lastCall.sig = s
        /\ lastCall.capture = "none"
        /\ lastCall.servedBy = "orig"

\* ---- C4 ----------------------------------------------------------------
C4_Propagated ==
    /\ (lastCall.compiled /\ lastCall.fault # 0) =>
          lastCall.error \in {"FreezeError", "RewritePassError"}
    /\ lastCall.error # "none" =>
          /\ lastCall.servedBy = "none"
          /\ IsAbsent(lastCall.sig)

C4_Retried ==
    \A s \in Sigs :
        (lastCall.sig = s /\ lastCall.error # "none" /\ CalledWith(s)) =>
            /\ captures'[s] = captures[s] + 1
            /\ lastCall'.capture = "ok" => tsInvoked'[s] = tsInvoked[s] + 1

\* C4: an error other than UntraceableError raised by capture, by the freeze or
\* by a rewrite pass reaches the caller, leaves no entry for S (neither Compiled
\* nor Fallback), and the next call with S captures and compiles again.
C4_ErrorNotCached == []C4_Propagated /\ [][C4_Retried]_vars

\* A second failed compilation of the same signature.
C4_Witness ==
    \E s \in Sigs :
        /\ tsInvoked[s] >= 2
        /\ lastCall.sig = s
        /\ lastCall.error = "RewritePassError"
        /\ IsAbsent(s)

\* ---- C5 ----------------------------------------------------------------
ReplayAllowed(u) == config.enable_cuda_graph /\ device[u] = "cuda"

\* C5: a replay wrapper sits on a unet's forward only if enable_cuda_graph is set
\* and that unet's device type is 'cuda'; no other entry point ever gets one;
\* where replay is not allowed the forward holds no replay wrapper, and no
\* compile call raises.
C5_ReplayOnlyOnCuda ==
    /\ \A u \in UNets : HasReplay(forward[ForwardOf(u)]) => ReplayAllowed(u)
    /\ \A e \in EntryPoints \ {ForwardOf(u) : u \in UNets} : ~HasReplay(forward[e])
    /\ installErr = "none"

\* enable_cuda_graph on a cpu unet: compiled, interception-wrapped, no replay.
C5_Witness ==
    /\ installs > 0
    /\ config.enable_cuda_graph /\ config.enable_jit
    /\ device["unet"] = "cpu"
    /\ forward["unet.forward"] = LazyTraceWrap(Original)
    /\ hasControlnet /\ device["controlnet"] = "cuda"
    /\ HasReplay(forward["controlnet.forward"])

\* ---- C6 ----------------------------------------------------------------
\* Every replay wrapper of f directly encloses a lazy_trace wrapper.
ReplayOverLazyTrace(f) ==
    \A i \in 1..Len(f) : f[i] = "cuda_graph" => (i > 1 /\ f[i - 1] = "lazy_trace")

\* C6 as stated: in every configuration a replay wrapper encloses an
\* interception wrapper, never the original callable.
C6_ReplayAlwaysOverInterception ==
    \A e \in EntryPoints : ReplayOverLazyTrace(forward[e])

\* C6, amended: with enable_jit set, every replay wrapper directly encloses a
\* lazy_trace wrapper; with enable_jit unset no interception wrapper exists and
\* the replay wrapper encloses the original callable.
C6_ReplayOverInterceptionIfJit ==
    \A e \in EntryPoints :
        /\ config.enable_jit => ReplayOverLazyTrace(forward[e])
        /\ ~config.enable_jit =>
              /\ ~HasLazyTrace(forward[e])
              /\ forward[e][1] = "orig"
              /\ \A i \in 2..Len(forward[e]) : forward[e][i] = "cuda_graph"

\* Replay installed over the lazy_trace wrapper of the unet.
C6_Witness ==
    /\ config.enable_jit
    /\ forward["unet.forward"][Len(forward["unet.forward"])] = "cuda_graph"
    /\ forward["unet.forward"][Len(forward["unet.forward"]) - 1] = "lazy_trace"

\* ---- C7 ----------------------------------------------------------------
\* The options that can be off while the rewrite pipeline runs.
PipelineFlags == FlagNames \ {"enable_jit"}

AlwaysOnPasses == {"remove_dropout", "remove_contiguous", "replace_view_with_reshape"}

\* C7 as stated: some option decides whether linear fusion is applied, while
\* the removal and view passes run in every configuration.
C7_LinearFusionFlagged ==
    CompiledOk =>
        /\ \E f \in PipelineFlags : ("optimize_linear" \in Range(trace)) <=> config[f]
        /\ AlwaysOnPasses \subseteq Range(trace)

\* C7, amended: linear fusion is applied in every run of the rewrite pipeline,
\* whatever the configuration, exactly once, as are dead/no-op removal and
\* view/reshape canonicalization.
C7_LinearFusionAlways ==
    CompiledOk =>
        /\ Cardinality({i \in 1..Len(trace) : trace[i] = "optimize_linear"}) = 1
        /\ AlwaysOnPasses \subseteq Range(trace)

\* A completed run with every option but enable_jit off, linear fusion applied.
C7_Witness ==
    /\ CompiledOk
    /\ \A f \in PipelineFlags : ~config[f]
    /\ config.memory_format = "None"
    /\ "optimize_linear" \in Range(trace)

\* ---- C8 ----------------------------------------------------------------
\* C8: whenever ts_compiler runs, the freeze is attempted iff enable_jit_freeze
\* is set and the module is not in training mode; in training mode the rewrite
\* pipeline still runs, on the unfrozen module, and the artifact is unfrozen;
\* a frozen artifact carries the configured preserve_parameters.
C8_FreezeIffNotTraining ==
    lastCall.compiled =>
        /\ ("better_freeze" \in Range(trace)) <=>
              (config.enable_jit_freeze /\ training # "True")
        /\ training = "True" =>
              /\ trace[2] = "inline"
              /\ lastCall.modifyArg = "unfrozen"
              /\ CompiledOk =>
                    /\ ~traced_modules[lastCall.sig].frozen
                    /\ "optimize_linear" \in Range(trace)
        /\ \A s \in Sigs :
              IsCompiled(s) =>
                  /\ traced_modules[s].frozen <=>
                        (config.enable_jit_freeze /\ training # "True")
                  /\ traced_modules[s].frozen =>
                        (traced_modules[s].preserve <=> config.preserve_parameters)

\* A training-mode compilation with enable_jit_freeze set, completed.
C8_Witness ==
    /\ CompiledOk
    /\ training = "True"
    /\ config.enable_jit_freeze
    /\ ~traced_modules[lastCall.sig].frozen

\* ---- C9 ----------------------------------------------------------------
RewritePasses ==
    {"inline", "remove_dropout", "remove_contiguous", "replace_view_with_reshape",
     "triton_optimize_reshape", "triton_fuse_group_norm_silu",
     "triton_optimize_group_norm", "optimize_linear", "convert_op_input_tensors",
     "optimize_cnn", "prefer_lowp_gemm", "fuse_lowp_linear_add"}

\* C9 as stated: capture, then the rewrite passes, then the freeze; no rewrite
\* pass runs after the freeze.
C9_RewriteBeforeFreeze ==
    lastCall.compiled =>
        /\ trace[1] = "capture"
        /\ \A i, j \in 1..Len(trace) :
              (trace[i] = "better_freeze" /\ trace[j] \in RewritePasses) => j < i

\* C9, amended: capture, then the freeze (when it applies), then the rewrite
\* passes: every rewrite pass runs after the freeze, on the frozen module, and
\* nothing is frozen after a rewrite pass.
C9_FreezeBeforeRewrite ==
    lastCall.compiled =>
        /\ trace[1] = "capture"
        /\ \A i \in 2..Len(trace) : trace[i] # "capture"
        /\ \A i, j \in 1..Len(trace) :
              (trace[i] = "better_freeze" /\ trace[j] \in RewritePasses) => i < j
        /\ ("better_freeze" \in Range(trace) /\ lastCall.modifyArg # "none") =>
              lastCall.modifyArg = "frozen"

\* A completed compilation that froze the module and rewrote it.
C9_Witness ==
    /\ CompiledOk
    /\ trace[2] = "better_freeze"
    /\ trace[3] = "inline"
    /\ traced_modules[lastCall.sig].frozen

\* ---- C10 ---------------------------------------------------------------
FusionPasses ==
    {"triton_fuse_group_norm_silu", "triton_optimize_group_norm", "optimize_linear",
     "convert_op_input_tensors", "optimize_cnn", "prefer_lowp_gemm",
     "fuse_lowp_linear_add"}

PassOrder ==
    <<"inline", "remove_dropout", "remove_contiguous", "replace_view_with_reshape",
      "triton_optimize_reshape", "triton_fuse_group_norm_silu",
      "triton_optimize_group_norm", "optimize_linear", "convert_op_input_tensors",
      "optimize_cnn", "prefer_lowp_gemm", "fuse_lowp_linear_add">>

Rank(p) == CHOOSE k \in 1..Len(PassOrder) : PassOrder[k] = p

\* C10: in every run, complete or cut short by an error, each fusion or
\* substitution pass starts only after the removal passes and the view
\* canonicalization have run, and the passes that run follow one fixed order.
C10_ViewBeforeFusion ==
    /\ \A i \in 1..Len(trace) :
          trace[i] \in FusionPasses =>
              \A p \in AlwaysOnPasses : \E j \in 1..(i - 1) : trace[j] = p
    /\ \A i, j \in 1..Len(trace) :
          (i < j /\ trace[i] \in RewritePasses /\ trace[j] \in RewritePasses) =>
              Rank(trace[i]) < Rank(trace[j])

\* A completed run with every optional pass enabled.
C10_Witness ==
    /\ CompiledOk
    /\ config.enable_triton /\ config.enable_cnn_optimization /\ config.prefer_lowp_gemm
    /\ config.memory_format # "None"
    /\ FusionPasses \subseteq Range(trace)

====
